---- MODULE Spec2Model ----
(***************************************************************************)
(* espp::Interrupt (components/interrupt/include/interrupt.hpp): a GPIO    *)
(* interrupt demultiplexer.  Hardware edges run the per-pin ISR handler,   *)
(* which posts the pin number into a bounded FreeRTOS queue; one task      *)
(* drains the queue, looks the pin up in the table of registered           *)
(* interrupts and calls the user callback.                                 *)
(***************************************************************************)
EXTENDS Integers, Sequences, FiniteSets, TLC

(***************************************************************************)
(* Bounds of the model.                                                    *)
(***************************************************************************)
\* config.event_queue_size is 1 or MaxQueueSize.
MaxQueueSize == 2
\* Largest number of entries config.interrupts holds at construction.
MaxInitSpecs == 1
\* Largest length interrupts_ grows to (construction plus add_interrupt calls).
MaxSpecs == 2
\* Largest number of hardware level changes over all pins.
MaxEdges == 2
\* Number of Interrupt objects constructed concurrently (SvcSpec).
NumInstances == 3

\* The GPIO numbers the model uses.
Pins == {0, 1}
QueueSizes == {1, MaxQueueSize}
Instances == 1 .. NumInstances

(***************************************************************************)
(* Values of the program.                                                  *)
(***************************************************************************)
\* enum class ActiveLevel { LOW = 0, HIGH = 1 }
LOW == 0
HIGH == 1
\* A stop event that is also the number of a pin (C13 must not survive it).
STOP_EVENT_IS_PIN == CHOOSE p \in Pins : \A q \in Pins : p <= q
\* EventData{-1}: the stop event the destructor posts.
STOP_EVENT == -1
\* enum class Type, plus the state of a pin gpio_config never touched.
Types == {"ANY_EDGE", "RISING_EDGE", "FALLING_EDGE", "LOW_LEVEL", "HIGH_LEVEL"}
INTR_DISABLE == "DISABLE"
\* An empty std::function.
NO_CALLBACK == 0

\* struct InterruptConfig.  callback is the identity of the std::function
\* (NO_CALLBACK when empty).
InterruptConfig(p, cb, al, ty, pu, pd, gf) ==
  [gpio_num |-> p, callback |-> cb, active_level |-> al, interrupt_type |-> ty,
   pullup_enabled |-> pu, pulldown_enabled |-> pd, enable_pin_glitch_filter |-> gf]

\* The InterruptConfig values callers pass in.  For pin 0: an active-high
\* rising-edge one, an active-low any-edge one with pull-up, and one without a
\* callback; for every other pin an active-low any-edge one with pull-up and
\* glitch filter.
ConfigSet ==
  {InterruptConfig(0, 1, HIGH, "RISING_EDGE", FALSE, FALSE, FALSE),
   InterruptConfig(0, 2, LOW, "ANY_EDGE", TRUE, FALSE, FALSE),
   InterruptConfig(0, NO_CALLBACK, HIGH, "FALLING_EDGE", FALSE, TRUE, FALSE)}
  \cup {InterruptConfig(p, 3, LOW, "ANY_EDGE", TRUE, FALSE, TRUE) : p \in Pins \ {0}}

SeqsUpTo(S, n) == UNION {[1 .. k -> S] : k \in 0 .. n}

VARIABLES
  life,                   \* lifetime of the object: "unbuilt", "alive", then the destructor's position
  queue_,                 \* QueueHandle_t queue_: "null", "valid" or "deleted"
  queue_size,             \* capacity xQueueCreate was given
  queue,                  \* the queue's contents, oldest first
  interrupts_,            \* std::vector<InterruptConfig> interrupts_
  handler_args_,          \* std::vector<HandlerArgs*> handler_args_
  glitch_filter_handles_, \* std::vector<gpio_glitch_filter_handle_t>
  interrupt_mutex_,       \* owner of the recursive mutex: "free" or "task"
  task_,                  \* the espp::Task: "none", "running" or "stopped"
  tpc,                    \* position of task_callback: "recv", "got", "cb"
  event_data,             \* the EventData task_callback dequeued
  ISR_SERVICE_INSTALLED,  \* static bool ISR_SERVICE_INSTALLED
  isr_table,              \* GPIO driver: pin -> index into handler_args_ of the installed handler, 0 if none
  gpio_cfg,               \* GPIO driver: pin -> configuration gpio_config applied
  level,                  \* electrical level of every pin
  glitch_supported,       \* CONFIG_SOC_GPIO_SUPPORT_PIN_GLITCH_FILTER of the build
  crashed,                \* the program dereferenced a null or freed pointer
  install_calls,          \* history: number of gpio_install_isr_service calls
  enqueued,               \* history: pin numbers the ISR handler put into the queue
  dropped,                \* history: number of events the ISR handler could not enqueue
  skipped,                \* history: dequeued events task_callback gave to no callback
  calls,                  \* history: the callback invocations, in order
  edges,                  \* history: number of level changes so far
  add_calls,              \* history: pin -> number of add_interrupt calls that passed a callback
  error_log,              \* history: the messages given to logger_.error so far
  config_failed,          \* history: a gpio_config call returned an error
  ipc                     \* SvcSpec: position of every instance's constructor

vars == <<life, queue_, queue_size, queue, interrupts_, handler_args_,
          glitch_filter_handles_, interrupt_mutex_, task_, tpc, event_data,
          ISR_SERVICE_INSTALLED, isr_table, gpio_cfg, level, glitch_supported,
          crashed, install_calls, enqueued, dropped, skipped, calls, edges,
          add_calls, error_log, config_failed, ipc>>

objVars == <<life, queue_, queue_size, queue, interrupts_, handler_args_,
             glitch_filter_handles_, interrupt_mutex_, task_, tpc, event_data,
             isr_table, gpio_cfg, level, glitch_supported, crashed, enqueued,
             dropped, skipped, calls, edges, add_calls, error_log, config_failed>>


(***************************************************************************)
(* Pure parts of the code.                                                 *)
(***************************************************************************)
\* struct HandlerArgs {gpio_num, event_queue}; freed is set by delete.
HandlerArgs(p, q) == [gpio_num |-> p, event_queue |-> q, freed |-> FALSE]

\* Whether the GPIO driver raises the interrupt of a pin configured with
\* intr_type when its level goes from old to new.
Satisfies(intr_type, old, new) ==
  CASE intr_type = "ANY_EDGE" -> old # new
    [] intr_type = "RISING_EDGE" -> old = 0 /\ new = 1
    [] intr_type = "FALLING_EDGE" -> old = 1 /\ new = 0
    [] intr_type = "LOW_LEVEL" -> new = 0
    [] intr_type = "HIGH_LEVEL" -> new = 1
    [] OTHER -> FALSE

\* A send that ignores the capacity (C5 must not survive it).
QueueSendAlways(q, cap, item) == Append(q, item)

\* xQueueSendFromISR / xQueueSend with a wait of 0 ticks on a queue holding q
\* with room for cap items: the item is appended unless the queue is full.
QueueSend(q, cap, item) == IF Len(q) < cap THEN Append(q, item) ELSE q

\* The comparison inverted (C10 must not survive it).
is_active_level_inverted(gpio_num, active_level) == level[gpio_num] # active_level

\* is_active_level: gpio_get_level(gpio_num) == static_cast<int>(active_level)
is_active_level(gpio_num, active_level) == level[gpio_num] = active_level

\* A lookup that takes the last entry for gpio_num (C12 must not survive it).
FindLast(table, gpio_num) ==
  LET hits == {i \in 1 .. Len(table) : table[i].gpio_num = gpio_num}
  IN IF hits = {} THEN 0 ELSE CHOOSE i \in hits : \A j \in hits : i >= j

\* std::find_if(interrupts_.begin(), interrupts_.end(), predicate): the index
\* of the first entry for gpio_num, 0 for interrupts_.end().
FindInterrupt(table, gpio_num) ==
  LET hits == {i \in 1 .. Len(table) : table[i].gpio_num = gpio_num}
  IN IF hits = {} THEN 0 ELSE CHOOSE i \in hits : \A j \in hits : i <= j

\* static_cast<uint8_t>(event_data.gpio_num)
ToUint8(n) == n % 256

\* gpio_isr_handler_add(gpio_num, isr_handler, handler_arg): the driver keeps
\* one handler per pin and replaces the one it had; it installs nothing
\* (ESP_ERR_INVALID_STATE) while the ISR service is not installed.
GpioIsrHandlerAdd(isr, installed, gpio_num, handler_arg) ==
  IF installed THEN [isr EXCEPT ![gpio_num] = handler_arg] ELSE isr

\* configure_interrupt(interrupt) on the driver and registry state
\* s = [args, isr, cfg, gf, log, failed], with member queue_ = q and the ISR
\* service installed or not.  cfg_ok is whether gpio_config succeeds, gf_ok
\* whether gpio_new_pin_glitch_filter does.  The value gpio_config returns is
\* not looked at.
ConfigureInterrupt(s, interrupt, q, installed, cfg_ok, gf_ok) ==
  IF interrupt.callback = NO_CALLBACK
  THEN [s EXCEPT !.log = @ \cup {"No callback provided"}]
  ELSE LET p == interrupt.gpio_num
           cfg1 == IF cfg_ok
                   THEN [s.cfg EXCEPT ![p] =
                           [intr_type |-> interrupt.interrupt_type,
                            pull_up |-> interrupt.pullup_enabled,
                            pull_down |-> interrupt.pulldown_enabled]]
                   ELSE s.cfg
           args1 == Append(s.args, HandlerArgs(p, q))
           isr1 == GpioIsrHandlerAdd(s.isr, installed, p, Len(args1))
           gf1 == IF interrupt.enable_pin_glitch_filter /\ glitch_supported /\ gf_ok
                  THEN Append(s.gf, [gpio_num |-> p, state |-> "enabled"])
                  ELSE s.gf
           log1 == IF interrupt.enable_pin_glitch_filter /\ glitch_supported /\ ~gf_ok
                   THEN s.log \cup {"Failed to enable glitch filter"}
                   ELSE s.log
       IN [args |-> args1, isr |-> isr1, cfg |-> cfg1, gf |-> gf1, log |-> log1,
           failed |-> (s.failed \/ ~cfg_ok)]

\* for (const auto &interrupt : interrupts_) configure_interrupt(interrupt);
RECURSIVE ConfigureAll(_, _, _, _, _, _)
ConfigureAll(s, table, q, installed, oks, i) ==
  IF i > Len(table)
  THEN s
  ELSE ConfigureAll(ConfigureInterrupt(s, table[i], q, installed, oks[i][1],
                                       oks[i][2]),
                    table, q, installed, oks, i + 1)

DriverState == [args |-> handler_args_, isr |-> isr_table, cfg |-> gpio_cfg,
                gf |-> glitch_filter_handles_, log |-> error_log,
                failed |-> config_failed]

(***************************************************************************)
(* espp::Task (task.hpp), used through start(), stop() and the return      *)
(* value of the callback.                                                  *)
(***************************************************************************)
\* task_->start(): the task runs the callback in a loop.
TaskStarted == "running"
\* The loop ends when the callback returns true.
TaskAfterCallback(ret) == IF ret THEN "stopped" ELSE "running"
\* task_->stop() returns once the task has ended.
TaskStopReturns == task_ = "stopped"

(***************************************************************************)
(* Initial state: no object constructed yet.                               *)
(***************************************************************************)
Init ==
  /\ life = "unbuilt"
  /\ queue_ = "null"
  /\ queue_size = 1
  /\ queue = <<>>
  /\ interrupts_ = <<>>
  /\ handler_args_ = <<>>
  /\ glitch_filter_handles_ = <<>>
  /\ interrupt_mutex_ = "free"
  /\ task_ = "none"
  /\ tpc = "recv"
  /\ event_data = 0
  /\ ISR_SERVICE_INSTALLED \in BOOLEAN
  /\ isr_table = [p \in Pins |-> 0]
  /\ gpio_cfg = [p \in Pins |-> [intr_type |-> INTR_DISABLE, pull_up |-> FALSE,
                                 pull_down |-> FALSE]]
  /\ level = [p \in Pins |-> 0]
  /\ glitch_supported \in BOOLEAN
  /\ crashed = FALSE
  /\ install_calls = IF ISR_SERVICE_INSTALLED THEN 1 ELSE 0
  /\ enqueued = <<>>
  /\ dropped = 0
  /\ skipped = [p \in Pins |-> 0]
  /\ calls = <<>>
  /\ edges = 0
  /\ add_calls = [p \in Pins |-> 0]
  /\ error_log = {}
  /\ config_failed = FALSE
  /\ ipc = [i \in Instances |-> "start"]

(***************************************************************************)
(* Caller context: constructor, add_interrupt, destructor.                 *)
(***************************************************************************)
\* Interrupt(const Config &config).  The members queue_ and interrupts_ are
\* initialised first; when the queue could not be created the constructor
\* returns before anything else happens.
Construct ==
  /\ life = "unbuilt"
  /\ \E config \in SeqsUpTo(ConfigSet, MaxInitSpecs), size \in QueueSizes,
        created \in BOOLEAN :
       \E oks \in [1 .. Len(config) -> BOOLEAN \X BOOLEAN] :
         /\ interrupts_' = config
         /\ queue_size' = size
         /\ life' = "alive"
         /\ IF ~created
            THEN /\ queue_' = "null"
                 /\ error_log' = error_log \cup {"Failed to create event queue"}
                 /\ UNCHANGED <<handler_args_, isr_table, gpio_cfg,
                                glitch_filter_handles_, task_,
                                ISR_SERVICE_INSTALLED, install_calls,
                                config_failed>>
            ELSE LET s == ConfigureAll(DriverState, config, "valid", TRUE, oks, 1)
                 IN /\ queue_' = "valid"
                    /\ ISR_SERVICE_INSTALLED' = TRUE
                    /\ install_calls' = IF ISR_SERVICE_INSTALLED
                                        THEN install_calls
                                        ELSE install_calls + 1
                    /\ handler_args_' = s.args
                    /\ isr_table' = s.isr
                    /\ gpio_cfg' = s.cfg
                    /\ glitch_filter_handles_' = s.gf
                    /\ error_log' = s.log
                    /\ config_failed' = s.failed
                    /\ task_' = TaskStarted
  /\ UNCHANGED <<queue, interrupt_mutex_, tpc, event_data, level,
                 glitch_supported, crashed, enqueued, dropped, skipped, calls,
                 edges, add_calls, ipc>>

\* add_interrupt without the lock_guard (C15 must not survive it).
AddInterruptNoLock ==
  /\ life = "alive"
  /\ ~crashed
  /\ Len(interrupts_) < MaxSpecs
  /\ \E interrupt \in ConfigSet, cfg_ok \in BOOLEAN, gf_ok \in BOOLEAN :
       LET s == ConfigureInterrupt(DriverState, interrupt, queue_,
                                  ISR_SERVICE_INSTALLED, cfg_ok, gf_ok)
       IN /\ interrupts_' = Append(interrupts_, interrupt)
          /\ handler_args_' = s.args
          /\ isr_table' = s.isr
          /\ gpio_cfg' = s.cfg
          /\ glitch_filter_handles_' = s.gf
          /\ error_log' = s.log
          /\ config_failed' = s.failed
          /\ add_calls' = IF interrupt.callback = NO_CALLBACK
                           THEN add_calls
                           ELSE [add_calls EXCEPT ![interrupt.gpio_num] = @ + 1]
  /\ UNCHANGED <<life, queue_, queue_size, queue, interrupt_mutex_, task_, tpc,
                 event_data, ISR_SERVICE_INSTALLED, level, glitch_supported,
                 crashed, install_calls, enqueued, dropped, skipped, calls,
                 edges, ipc>>

\* add_interrupt(interrupt), called from a context other than the task's: it
\* waits for the mutex, appends to interrupts_ and configures.
AddInterrupt ==
  /\ life = "alive"
  /\ ~crashed
  /\ interrupt_mutex_ = "free"
  /\ Len(interrupts_) < MaxSpecs
  /\ \E interrupt \in ConfigSet, cfg_ok \in BOOLEAN, gf_ok \in BOOLEAN :
       LET s == ConfigureInterrupt(DriverState, interrupt, queue_,
                                  ISR_SERVICE_INSTALLED, cfg_ok, gf_ok)
       IN /\ interrupts_' = Append(interrupts_, interrupt)
          /\ handler_args_' = s.args
          /\ isr_table' = s.isr
          /\ gpio_cfg' = s.cfg
          /\ glitch_filter_handles_' = s.gf
          /\ error_log' = s.log
          /\ config_failed' = s.failed
          /\ add_calls' = IF interrupt.callback = NO_CALLBACK
                           THEN add_calls
                           ELSE [add_calls EXCEPT ![interrupt.gpio_num] = @ + 1]
  /\ UNCHANGED <<life, queue_, queue_size, queue, interrupt_mutex_, task_, tpc,
                 event_data, ISR_SERVICE_INSTALLED, level, glitch_supported,
                 crashed, install_calls, enqueued, dropped, skipped, calls,
                 edges, ipc>>

\* A destructor that leaves the handlers installed (C14 must not survive it).
DestructKeepHandlers ==
  /\ life = "alive"
  /\ ~crashed
  /\ interrupt_mutex_ = "free"
  /\ life' = "d_queue"
  /\ UNCHANGED <<queue_, queue_size, queue, interrupts_, handler_args_,
                 glitch_filter_handles_, interrupt_mutex_, task_, tpc,
                 event_data, ISR_SERVICE_INSTALLED, isr_table, gpio_cfg, level,
                 glitch_supported, crashed, install_calls, enqueued, dropped,
                 skipped, calls, edges, add_calls, ipc>>
  /\ UNCHANGED <<error_log, config_failed>>

\* ~Interrupt(), first block: under the mutex, gpio_isr_handler_remove for the
\* pin of every entry of handler_args_.
DestructRemoveHandlers ==
  /\ life = "alive"
  /\ ~crashed
  /\ interrupt_mutex_ = "free"
  /\ isr_table' = [p \in Pins |->
                     IF \E i \in 1 .. Len(handler_args_) : handler_args_[i].gpio_num = p
                     THEN 0
                     ELSE isr_table[p]]
  /\ life' = "d_queue"
  /\ UNCHANGED <<queue_, queue_size, queue, interrupts_, handler_args_,
                 glitch_filter_handles_, interrupt_mutex_, task_, tpc,
                 event_data, ISR_SERVICE_INSTALLED, gpio_cfg, level,
                 glitch_supported, crashed, install_calls, enqueued, dropped,
                 skipped, calls, edges, add_calls, ipc>>
  /\ UNCHANGED <<error_log, config_failed>>

\* ~Interrupt(), if (queue_): xQueueSend(queue_, {-1}, 0).
DestructSendStop ==
  /\ life = "d_queue"
  /\ ~crashed
  /\ queue_ = "valid"
  /\ queue' = QueueSend(queue, queue_size, STOP_EVENT)
  /\ life' = "d_stop"
  /\ UNCHANGED <<queue_, queue_size, interrupts_, handler_args_,
                 glitch_filter_handles_, interrupt_mutex_, task_, tpc,
                 event_data, ISR_SERVICE_INSTALLED, isr_table, gpio_cfg, level,
                 glitch_supported, crashed, install_calls, enqueued, dropped,
                 skipped, calls, edges, add_calls, ipc>>
  /\ UNCHANGED <<error_log, config_failed>>

\* A destructor that leaves the glitch filters alone (C18 must not survive it).
KeptFilters == glitch_filter_handles_

\* The rest of ~Interrupt(): gpio_glitch_filter_disable and
\* gpio_del_glitch_filter for every handle, delete for every HandlerArgs.
ReleasedFilters ==
  [i \in 1 .. Len(glitch_filter_handles_) |->
     [glitch_filter_handles_[i] EXCEPT !.state = "deleted"]]
ReleasedArgs ==
  [i \in 1 .. Len(handler_args_) |-> [handler_args_[i] EXCEPT !.freed = TRUE]]

\* ~Interrupt(), if (queue_) is false: nothing to stop or delete; the filters
\* and the handler args are released and the destructor returns.
DestructNoQueue ==
  /\ life = "d_queue"
  /\ ~crashed
  /\ queue_ = "null"
  /\ glitch_filter_handles_' = ReleasedFilters
  /\ handler_args_' = ReleasedArgs
  /\ life' = "destroyed"
  /\ UNCHANGED <<queue_, queue_size, queue, interrupts_, interrupt_mutex_,
                 task_, tpc, event_data, ISR_SERVICE_INSTALLED, isr_table,
                 gpio_cfg, level, glitch_supported, crashed, install_calls,
                 enqueued, dropped, skipped, calls, edges, add_calls, ipc>>
  /\ UNCHANGED <<error_log, config_failed>>

\* A destructor that does not wait for the task (C1 must not survive it).
DestructStopTaskNoWait ==
  /\ life = "d_stop"
  /\ ~crashed
  /\ queue_' = "deleted"
  /\ queue' = <<>>
  /\ glitch_filter_handles_' = ReleasedFilters
  /\ handler_args_' = ReleasedArgs
  /\ life' = "destroyed"
  /\ UNCHANGED <<queue_size, interrupts_, interrupt_mutex_, task_, tpc,
                 event_data, ISR_SERVICE_INSTALLED, isr_table, gpio_cfg, level,
                 glitch_supported, crashed, install_calls, enqueued, dropped,
                 skipped, calls, edges, add_calls, ipc>>
  /\ UNCHANGED <<error_log, config_failed>>

\* ~Interrupt(): task_->stop() returns, then vQueueDelete(queue_), the filters
\* and the handler args are released and the destructor returns.
DestructStopTask ==
  /\ life = "d_stop"
  /\ ~crashed
  /\ TaskStopReturns
  /\ queue_' = "deleted"
  /\ queue' = <<>>
  /\ glitch_filter_handles_' = ReleasedFilters
  /\ handler_args_' = ReleasedArgs
  /\ life' = "destroyed"
  /\ UNCHANGED <<queue_size, interrupts_, interrupt_mutex_, task_, tpc,
                 event_data, ISR_SERVICE_INSTALLED, isr_table, gpio_cfg, level,
                 glitch_supported, crashed, install_calls, enqueued, dropped,
                 skipped, calls, edges, add_calls, ipc>>
  /\ UNCHANGED <<error_log, config_failed>>

(***************************************************************************)
(* Interrupt context.                                                      *)
(***************************************************************************)
\* The level of pin p changes.  When the pin has a handler installed and the
\* change satisfies the configured trigger, isr_handler(arg) runs:
\* xQueueSendFromISR(args->event_queue, {args->gpio_num}, nullptr).  A null or
\* deleted queue, or freed args, make the program fault.
HardwareEdge(p) ==
  /\ life # "unbuilt"
  /\ ~crashed
  /\ edges < MaxEdges
  /\ edges' = edges + 1
  /\ level' = [level EXCEPT ![p] = 1 - level[p]]
  /\ IF isr_table[p] # 0 /\ Satisfies(gpio_cfg[p].intr_type, level[p], 1 - level[p])
     THEN LET args == handler_args_[isr_table[p]]
          IN IF args.freed \/ args.event_queue # "valid" \/ queue_ # "valid"
             THEN /\ crashed' = TRUE
                  /\ UNCHANGED <<queue, enqueued, dropped>>
             ELSE /\ queue' = QueueSend(queue, queue_size, args.gpio_num)
                  /\ enqueued' = IF Len(queue') > Len(queue)
                                 THEN Append(enqueued, args.gpio_num)
                                 ELSE enqueued
                  /\ dropped' = IF Len(queue') > Len(queue) THEN dropped ELSE dropped + 1
                  /\ UNCHANGED crashed
     ELSE UNCHANGED <<queue, enqueued, dropped, crashed>>
  /\ UNCHANGED <<life, queue_, queue_size, interrupts_, handler_args_,
                 glitch_filter_handles_, interrupt_mutex_, task_, tpc,
                 event_data, ISR_SERVICE_INSTALLED, isr_table, gpio_cfg,
                 glitch_supported, install_calls, skipped, calls, add_calls, ipc>>
  /\ UNCHANGED <<error_log, config_failed>>

(***************************************************************************)
(* Task context: task_callback, run in a loop by the task.                 *)
(***************************************************************************)
\* xQueueReceive(queue_, &event_data, portMAX_DELAY) returns an item; the
\* stop event makes task_callback return true.
TaskReceive ==
  /\ task_ = "running"
  /\ ~crashed
  /\ tpc = "recv"
  /\ queue_ = "valid"
  /\ queue # <<>>
  /\ queue' = Tail(queue)
  /\ event_data' = Head(queue)
  /\ IF Head(queue) = STOP_EVENT
     THEN /\ task_' = TaskAfterCallback(TRUE)
          /\ tpc' = "recv"
     ELSE /\ task_' = task_
          /\ tpc' = "got"
  /\ UNCHANGED <<life, queue_, queue_size, interrupts_, handler_args_,
                 glitch_filter_handles_, interrupt_mutex_,
                 ISR_SERVICE_INSTALLED, isr_table, gpio_cfg, level,
                 glitch_supported, crashed, install_calls, enqueued, dropped,
                 skipped, calls, edges, add_calls, ipc>>
  /\ UNCHANGED <<error_log, config_failed>>

\* task_callback without the test of the callback (C16 must not survive it).
TaskDispatchNoCallbackCheck ==
  /\ task_ = "running"
  /\ ~crashed
  /\ tpc = "got"
  /\ interrupt_mutex_ = "free"
  /\ LET i == FindInterrupt(interrupts_, event_data)
     IN IF i = 0
        THEN /\ skipped' = [skipped EXCEPT ![event_data] = @ + 1]
             /\ error_log' = error_log \cup {IF i = 0
                                              THEN "No interrupt found"
                                              ELSE "No callback registered"}
             /\ task_' = TaskAfterCallback(FALSE)
             /\ tpc' = "recv"
             /\ UNCHANGED <<calls, interrupt_mutex_>>
        ELSE /\ calls' = Append(calls,
                           [gpio_num |-> ToUint8(event_data),
                            active |-> is_active_level(event_data,
                                                       interrupts_[i].active_level),
                            callback |-> interrupts_[i].callback,
                            entry |-> i,
                            lvl |-> level[event_data]])
             /\ interrupt_mutex_' = "task"
             /\ tpc' = "cb"
             /\ UNCHANGED <<skipped, task_, error_log>>
  /\ UNCHANGED <<life, queue_, queue_size, queue, interrupts_, handler_args_,
                 glitch_filter_handles_, event_data, ISR_SERVICE_INSTALLED,
                 isr_table, gpio_cfg, level, glitch_supported, crashed,
                 install_calls, enqueued, dropped, edges, add_calls,
                 config_failed, ipc>>

\* task_callback takes the mutex, looks the pin up and either logs an error
\* and returns false, or reads the level and enters the callback.
TaskDispatch ==
  /\ task_ = "running"
  /\ ~crashed
  /\ tpc = "got"
  /\ interrupt_mutex_ = "free"
  /\ LET i == FindInterrupt(interrupts_, event_data)
     IN IF i = 0 \/ (i # 0 /\ interrupts_[i].callback = NO_CALLBACK)
        THEN /\ skipped' = [skipped EXCEPT ![event_data] = @ + 1]
             /\ error_log' = error_log \cup {IF i = 0
                                              THEN "No interrupt found"
                                              ELSE "No callback registered"}
             /\ task_' = TaskAfterCallback(FALSE)
             /\ tpc' = "recv"
             /\ UNCHANGED <<calls, interrupt_mutex_>>
        ELSE /\ calls' = Append(calls,
                           [gpio_num |-> ToUint8(event_data),
                            active |-> is_active_level(event_data,
                                                       interrupts_[i].active_level),
                            callback |-> interrupts_[i].callback,
                            entry |-> i,
                            lvl |-> level[event_data]])
             /\ interrupt_mutex_' = "task"
             /\ tpc' = "cb"
             /\ UNCHANGED <<skipped, task_, error_log>>
  /\ UNCHANGED <<life, queue_, queue_size, queue, interrupts_, handler_args_,
                 glitch_filter_handles_, event_data, ISR_SERVICE_INSTALLED,
                 isr_table, gpio_cfg, level, glitch_supported, crashed,
                 install_calls, enqueued, dropped, edges, add_calls,
                 config_failed, ipc>>

\* The user callback returns; the lock_guard releases the mutex and
\* task_callback returns false.
TaskCallbackReturn ==
  /\ task_ = "running"
  /\ ~crashed
  /\ tpc = "cb"
  /\ interrupt_mutex_' = "free"
  /\ task_' = TaskAfterCallback(FALSE)
  /\ tpc' = "recv"
  /\ UNCHANGED <<life, queue_, queue_size, queue, interrupts_, handler_args_,
                 glitch_filter_handles_, event_data, ISR_SERVICE_INSTALLED,
                 isr_table, gpio_cfg, level, glitch_supported, crashed,
                 install_calls, enqueued, dropped, skipped, calls, edges, add_calls, ipc>>
  /\ UNCHANGED <<error_log, config_failed>>

Next ==
  \/ Construct
  \/ AddInterrupt
  \/ DestructRemoveHandlers
  \/ DestructSendStop
  \/ DestructNoQueue
  \/ DestructStopTask
  \/ \E p \in Pins : HardwareEdge(p)
  \/ TaskReceive
  \/ TaskDispatch
  \/ TaskCallbackReturn

Spec == Init /\ [][Next]_vars

\* The scheduler runs the task and the thread inside the destructor whenever
\* they can take a step; user callbacks return.
FairSpec ==
  /\ Spec
  /\ WF_vars(TaskReceive)
  /\ WF_vars(TaskDispatch)
  /\ WF_vars(TaskCallbackReturn)
  /\ WF_vars(DestructSendStop)
  /\ WF_vars(DestructNoQueue)
  /\ WF_vars(DestructStopTask)

(***************************************************************************)
(* Several Interrupt objects constructed from different threads, each with *)
(* an empty config.interrupts.  The constructor is followed statement by   *)
(* statement; ISR_SERVICE_INSTALLED is a plain static bool.                *)
(***************************************************************************)
\* queue_(xQueueCreate(...)); if (!queue_) return;
SvcCreateQueue(i) ==
  /\ ipc[i] = "start"
  /\ \E created \in BOOLEAN :
       ipc' = [ipc EXCEPT ![i] = IF created THEN "check" ELSE "inert"]
  /\ UNCHANGED <<ISR_SERVICE_INSTALLED, install_calls>>
  /\ UNCHANGED objVars

\* if (!ISR_SERVICE_INSTALLED): the read of the flag.
SvcCheckInstalled(i) ==
  /\ ipc[i] = "check"
  /\ ipc' = [ipc EXCEPT ![i] = IF ISR_SERVICE_INSTALLED THEN "run" ELSE "install"]
  /\ UNCHANGED <<ISR_SERVICE_INSTALLED, install_calls>>
  /\ UNCHANGED objVars

\* gpio_install_isr_service(0);
SvcInstallService(i) ==
  /\ ipc[i] = "install"
  /\ install_calls' = install_calls + 1
  /\ ipc' = [ipc EXCEPT ![i] = "setflag"]
  /\ UNCHANGED ISR_SERVICE_INSTALLED
  /\ UNCHANGED objVars

\* ISR_SERVICE_INSTALLED = true; nothing to configure; the task starts.
SvcSetInstalled(i) ==
  /\ ipc[i] = "setflag"
  /\ ISR_SERVICE_INSTALLED' = TRUE
  /\ ipc' = [ipc EXCEPT ![i] = "run"]
  /\ UNCHANGED install_calls
  /\ UNCHANGED objVars

\* ~Interrupt() of instance i: the flag is not touched.
SvcDestruct(i) ==
  /\ ipc[i] \in {"run", "inert"}
  /\ ipc' = [ipc EXCEPT ![i] = "gone"]
  /\ UNCHANGED <<ISR_SERVICE_INSTALLED, install_calls>>
  /\ UNCHANGED objVars

SvcNext ==
  \E i \in Instances :
    \/ SvcCreateQueue(i)
    \/ SvcCheckInstalled(i)
    \/ SvcInstallService(i)
    \/ SvcSetInstalled(i)
    \/ SvcDestruct(i)

SvcSpec == Init /\ [][SvcNext]_vars

(***************************************************************************)
(* Vocabulary of the properties.                                           *)
(***************************************************************************)
Count(seq, x) == Cardinality({i \in DOMAIN seq : seq[i] = x})
\* Pin numbers of the callback invocations so far, in order.
CallPins == [i \in DOMAIN calls |-> calls[i].gpio_num]
\* The event the task has dequeued and not yet looked up.
InFlight == IF task_ = "running" /\ tpc = "got" THEN <<event_data>> ELSE <<>>
\* The events waiting in the queue, without the stop event.
Waiting == SelectSeq(queue, LAMBDA e : e # STOP_EVENT)
\* Pin p has an entry with a callback in the table.
Registered(p) ==
  \E i \in DOMAIN interrupts_ :
    interrupts_[i].gpio_num = p /\ interrupts_[i].callback # NO_CALLBACK
\* The handler contexts of pin p that have not been freed.
LiveArgs(p) ==
  {i \in DOMAIN handler_args_ : handler_args_[i].gpio_num = p /\ ~handler_args_[i].freed}
\* The glitch filter handles of pin p that have not been deleted.
LiveFilters(p) ==
  {i \in DOMAIN glitch_filter_handles_ :
     glitch_filter_handles_[i].gpio_num = p /\ glitch_filter_handles_[i].state = "enabled"}
DestructCalled == life \in {"d_queue", "d_stop", "destroyed"}
DestructReturned == life = "destroyed"

(***************************************************************************)
(* C1: once the destructor has returned no user callback is running and    *)
(* none is invoked again, whatever edges, ISR runs and task steps          *)
(* overlapped the teardown.                                                *)
(***************************************************************************)
C1_NoCallbackAfterDestruct ==
  /\ [](DestructReturned => tpc # "cb")
  /\ [][DestructReturned => calls' = calls]_vars

\* The destructor returned after an event enqueued before the teardown was
\* still delivered during it, and an edge came after the return.
C1_Witness ==
  /\ DestructReturned
  /\ task_ = "stopped"
  /\ Len(calls) >= 1
  /\ edges > Len(enqueued) + dropped

(***************************************************************************)
(* C2: with the task and the destructor scheduled fairly, a destructor     *)
(* call on an object whose queue was created returns, with the task        *)
(* stopped, also when the queue is full when the stop event is posted.     *)
(***************************************************************************)
C2_DestructReturns ==
  (life = "d_queue" /\ queue_ = "valid") ~> (DestructReturned /\ task_ = "stopped")

(***************************************************************************)
(* C3: while nothing overflowed and the object is alive, every interrupt   *)
(* raised on a pin registered with a callback is waiting, in flight, or    *)
(* was given to exactly one callback invocation, whose event carries the   *)
(* pin and active = (level read == active level).                          *)
(***************************************************************************)
C3_ExactlyOneCallback ==
  (life = "alive" /\ dropped = 0 /\ ~crashed) =>
    /\ \A p \in Pins :
         Registered(p) =>
           Count(enqueued, p) = Count(CallPins, p) + Count(Waiting, p) + Count(InFlight, p)
    /\ \A i \in DOMAIN calls :
         calls[i].active = (calls[i].lvl = interrupts_[calls[i].entry].active_level)

(***************************************************************************)
(* C4: while no enqueue overflowed, the pins of the callback invocations,  *)
(* followed by the event in flight and the events waiting, are the pins    *)
(* the ISR handler enqueued, in that order.                                *)
(***************************************************************************)
C4_FifoDelivery ==
  (dropped = 0 /\ ~crashed) =>
    CallPins \o InFlight \o Waiting = enqueued

(***************************************************************************)
(* C5: the queue never holds more than its capacity; an ISR enqueue on a   *)
(* full queue drops the event and changes neither the queue, the table,    *)
(* the handler contexts nor the task; callbacks and pending events never   *)
(* outnumber the events that were enqueued.                                *)
(***************************************************************************)
C5_OverflowDrops ==
  /\ [](Len(queue) <= queue_size)
  /\ [](Len(calls) + Len(InFlight) + Len(Waiting) <= Len(enqueued))
  /\ [][dropped' # dropped =>
          /\ Len(queue) = queue_size
          /\ queue' = queue
          /\ interrupts_' = interrupts_
          /\ handler_args_' = handler_args_
          /\ isr_table' = isr_table
          /\ <<task_, tpc, interrupt_mutex_, calls, enqueued>>' =
               <<task_, tpc, interrupt_mutex_, calls, enqueued>>
          /\ ~crashed']_vars

\* Events were dropped on a full queue while the task had not taken any.
C5_Witness ==
  /\ dropped >= 1
  /\ Len(queue) = queue_size
  /\ calls = <<>>
  /\ tpc = "recv"
  /\ life = "alive"

(***************************************************************************)
(* C6: add_interrupt with a spec without callback leaves the table, the    *)
(* handler contexts and the installed handlers as they were: no            *)
(* add_interrupt step appends a spec without callback to the table.        *)
(***************************************************************************)
C6_AddWithoutCallbackRejected ==
  [][(life = "alive" /\ life' = "alive" /\ interrupts_' # interrupts_) =>
       interrupts_'[Len(interrupts_')].callback # NO_CALLBACK]_vars

(***************************************************************************)
(* C7: when the queue could not be created, no handler context is ever     *)
(* allocated and no ISR handler is ever installed.                         *)
(***************************************************************************)
C7_InertAfterQueueFailure ==
  (life # "unbuilt" /\ queue_ = "null") =>
    (handler_args_ = <<>> /\ \A p \in Pins : isr_table[p] = 0)

(***************************************************************************)
(* C8: however the constructors of several objects interleave,             *)
(* gpio_install_isr_service is called at most once.                        *)
(***************************************************************************)
C8_ServiceInstalledOnce == install_calls <= 1

(***************************************************************************)
(* C9: after two add_interrupt calls with callbacks for a pin, the         *)
(* installed handler uses the latest handler context, and no other         *)
(* handler context and at most one glitch filter of that pin is alive.     *)
(***************************************************************************)
C9_ReRegistrationReleases ==
  \A p \in Pins :
    (life = "alive" /\ add_calls[p] >= 2 /\ ISR_SERVICE_INSTALLED) =>
      /\ LiveArgs(p) = {isr_table[p]}
      /\ Cardinality(LiveFilters(p)) <= 1

(***************************************************************************)
(* C10 (Scenario A): pin 0 registered once, active HIGH, RISING_EDGE,      *)
(* queue depth at least 2.                                                 *)
(***************************************************************************)
ScenarioA ==
  /\ life = "alive"
  /\ queue_ = "valid"
  /\ queue_size >= 2
  /\ interrupts_ = <<InterruptConfig(0, 1, HIGH, "RISING_EDGE", FALSE, FALSE, FALSE)>>
  /\ gpio_cfg[0].intr_type = "RISING_EDGE"
  /\ dropped = 0

\* C10 as claimed: every rising edge is given to exactly one callback
\* invocation, and every invocation carries active = true.
C10_ScenarioA_AlwaysActive ==
  ScenarioA =>
    /\ Len(enqueued) = Len(calls) + Len(InFlight) + Len(Waiting)
    /\ \A i \in DOMAIN calls : calls[i].gpio_num = 0 /\ calls[i].active

\* C10 as amended: a low-to-high transition enqueues one event and a
\* high-to-low transition none; every event is given to exactly one callback
\* invocation, which carries active = true exactly when the pin is still high
\* when the task reads its level.
C10_ScenarioA_ActiveIfStillHigh ==
  /\ [](ScenarioA =>
          /\ Len(enqueued) = Len(calls) + Len(InFlight) + Len(Waiting)
          /\ \A i \in DOMAIN calls :
               /\ calls[i].gpio_num = 0
               /\ calls[i].callback = 1
               /\ calls[i].active = (calls[i].lvl = 1))
  /\ [][(ScenarioA /\ level[0] = 0 /\ level'[0] = 1) =>
          (enqueued' = Append(enqueued, 0) /\ queue' = Append(queue, 0))]_vars
  /\ [][(ScenarioA /\ level[0] = 1 /\ level'[0] = 0) =>
          (enqueued' = enqueued /\ queue' = queue /\ calls' = calls)]_vars

\* The pin rose and fell again; the one callback invocation was made while
\* it was still high.
C10_Witness ==
  /\ ScenarioA
  /\ edges = 2
  /\ level[0] = 0
  /\ Len(calls) = 1
  /\ calls[1].active
  /\ queue = <<>>
  /\ tpc = "recv"

(***************************************************************************)
(* C11: while the object is alive, every pin with an installed ISR handler *)
(* has exactly one handler context alive in handler_args_, also after the  *)
(* same pin was registered again.                                          *)
(***************************************************************************)
C11_OneContextPerArmedPin ==
  life = "alive" =>
    \A p \in Pins : isr_table[p] # 0 => Cardinality(LiveArgs(p)) = 1

(***************************************************************************)
(* C12: every callback invocation was made for the first entry of the      *)
(* table, in registration order, whose pin is the event's pin: no earlier  *)
(* entry has that pin, the callback invoked is that entry's and the level  *)
(* read was compared with that entry's active level.                       *)
(***************************************************************************)
C12_FirstEntryDispatched ==
  \A i \in DOMAIN calls :
    LET e == calls[i].entry
    IN /\ e \in DOMAIN interrupts_
       /\ interrupts_[e].gpio_num = calls[i].gpio_num
       /\ \A j \in 1 .. (e - 1) : interrupts_[j].gpio_num # calls[i].gpio_num
       /\ calls[i].callback = interrupts_[e].callback
       /\ calls[i].active = (calls[i].lvl = interrupts_[e].active_level)

\* A callback is running for pin 0 while the table holds two entries for pin
\* 0 with different callbacks and active levels; the first one was used.
C12_Witness ==
  /\ tpc = "cb"
  /\ Len(interrupts_) = 2
  /\ interrupts_[1].gpio_num = 0
  /\ interrupts_[2].gpio_num = 0
  /\ interrupts_[1].callback # NO_CALLBACK
  /\ interrupts_[2].callback # NO_CALLBACK
  /\ interrupts_[1].callback # interrupts_[2].callback
  /\ interrupts_[1].active_level # interrupts_[2].active_level
  /\ calls[Len(calls)].entry = 1
  /\ calls[Len(calls)].callback = interrupts_[1].callback

(***************************************************************************)
(* C13: the task starts running; it stops only by dequeuing the stop       *)
(* event, whose pin number is -1; no other event and no lookup error stops *)
(* it; once stopped it stays stopped, dequeues nothing and invokes no      *)
(* callback.                                                               *)
(***************************************************************************)
C13_StopsOnlyOnSentinel ==
  /\ [][(task_ = "none" /\ task_' # "none") => task_' = "running"]_vars
  /\ [][(task_ = "running" /\ task_' # "running") =>
          /\ task_' = "stopped"
          /\ tpc = "recv"
          /\ queue # <<>>
          /\ Head(queue) = -1
          /\ queue' = Tail(queue)
          /\ event_data' = -1]_vars
  /\ [][(skipped' # skipped \/ calls' # calls) => task_' = "running"]_vars
  /\ [][task_ = "stopped" =>
          /\ task_' = "stopped"
          /\ calls' = calls
          /\ skipped' = skipped
          /\ event_data' = event_data
          /\ tpc' = tpc
          /\ (queue' = queue \/ queue_' = "deleted")]_vars
  /\ [](task_ = "stopped" => (tpc = "recv" /\ interrupt_mutex_ = "free"))

\* The task delivered an event, then dequeued the stop event and stopped; the
\* destructor has not returned yet.
C13_Witness ==
  /\ task_ = "stopped"
  /\ event_data = -1
  /\ life = "d_stop"
  /\ Len(calls) >= 1
  /\ queue = <<>>

(***************************************************************************)
(* C14: the destructor removes every installed handler before it posts the *)
(* stop event, and deletes the queue and the handler contexts only once    *)
(* the task has stopped; so no installed handler ever points at freed      *)
(* HandlerArgs or at a deleted queue, and the task is never running on a   *)
(* deleted queue.                                                          *)
(***************************************************************************)
C14_DestructOrder ==
  /\ (\E i \in DOMAIN queue : queue[i] = STOP_EVENT) =>
       \A p \in Pins : isr_table[p] = 0
  /\ DestructCalled => \A p \in Pins : isr_table[p] = 0
  /\ queue_ = "deleted" => task_ = "stopped"
  /\ (\E i \in DOMAIN handler_args_ : handler_args_[i].freed) =>
       (task_ # "running" /\ DestructReturned)
  /\ \A p \in Pins :
       isr_table[p] # 0 =>
         (~handler_args_[isr_table[p]].freed /\ queue_ # "deleted")

\* The destructor returned on an object whose handlers had posted events:
\* the task is stopped, the queue deleted and the handler contexts freed.
C14_Witness ==
  /\ DestructReturned
  /\ queue_ = "deleted"
  /\ task_ = "stopped"
  /\ Len(handler_args_) >= 1
  /\ \A i \in DOMAIN handler_args_ : handler_args_[i].freed
  /\ Len(enqueued) >= 1

(***************************************************************************)
(* C15: the task holds the mutex from the lookup until the callback has    *)
(* returned; while it does, no add_interrupt of another thread changes the *)
(* table, the handler contexts, the filters or the driver, and the         *)
(* destructor removes no handler.                                          *)
(***************************************************************************)
C15_LockHeldAcrossCallback ==
  /\ [](tpc = "cb" <=> interrupt_mutex_ = "task")
  /\ [][(tpc = "got" /\ tpc' = "cb") =>
          (interrupt_mutex_ = "free" /\ interrupts_' = interrupts_)]_vars
  /\ [][tpc = "cb" =>
          /\ interrupts_' = interrupts_
          /\ handler_args_' = handler_args_
          /\ glitch_filter_handles_' = glitch_filter_handles_
          /\ isr_table' = isr_table
          /\ gpio_cfg' = gpio_cfg
          /\ (life = "alive" => life' = "alive")]_vars

\* A callback is running on a live object whose table has room and whose
\* queue holds another event: add_interrupt and the destructor have to wait.
C15_Witness ==
  /\ tpc = "cb"
  /\ interrupt_mutex_ = "task"
  /\ life = "alive"
  /\ ~crashed
  /\ Len(interrupts_) < MaxSpecs
  /\ Len(queue) >= 1

(***************************************************************************)
(* C16: when the dequeued event's pin has no entry in the table, or its    *)
(* first entry has no callback, the task invokes no callback for it,       *)
(* leaves the table, the queue and the handlers as they are, releases the  *)
(* mutex and keeps running, ready to receive the next event; in every      *)
(* other case it invokes a callback.                                       *)
(***************************************************************************)
C16_DispatchErrorSkips ==
  /\ [][(tpc = "got" /\ tpc' # "got") =>
          LET i == FindInterrupt(interrupts_, event_data)
          IN IF i = 0 \/ (i # 0 /\ interrupts_[i].callback = NO_CALLBACK)
             THEN /\ calls' = calls
                  /\ skipped' = [skipped EXCEPT ![event_data] = @ + 1]
             ELSE /\ Len(calls') = Len(calls) + 1
                  /\ calls'[Len(calls')].callback # NO_CALLBACK
                  /\ skipped' = skipped]_vars
  /\ [][skipped' # skipped =>
          /\ tpc = "got"
          /\ calls' = calls
          /\ interrupts_' = interrupts_
          /\ queue' = queue
          /\ handler_args_' = handler_args_
          /\ isr_table' = isr_table
          /\ task_' = "running"
          /\ tpc' = "recv"
          /\ interrupt_mutex_' = "free"
          /\ ~crashed'
          /\ error_log' \cap {"No interrupt found", "No callback registered"} # {}]_vars

\* An event was skipped at an entry without callback, and the task has
\* dequeued the next event.
C16_Witness ==
  /\ task_ = "running"
  /\ tpc = "got"
  /\ \E p \in Pins : skipped[p] >= 1
  /\ "No callback registered" \in error_log
  /\ calls = <<>>

(***************************************************************************)
(* C17: on a live object with a queue, a spec with callback that asks for  *)
(* the glitch filter on a build without the capability still has its pin   *)
(* armed with a handler context, and no filter handle is recorded; every   *)
(* recorded handle belongs to a pin whose spec asked for the filter on a   *)
(* build with the capability, and no pin has more than one handle.         *)
(***************************************************************************)
C17_GlitchFilterHandles ==
  life = "alive" =>
    /\ \A e \in DOMAIN interrupts_ :
         (/\ interrupts_[e].callback # NO_CALLBACK
          /\ interrupts_[e].enable_pin_glitch_filter
          /\ ~glitch_supported
          /\ queue_ = "valid") =>
           (isr_table[interrupts_[e].gpio_num] # 0 /\ LiveArgs(interrupts_[e].gpio_num) # {})
    /\ ~glitch_supported => glitch_filter_handles_ = <<>>
    /\ \A h \in DOMAIN glitch_filter_handles_ :
         /\ glitch_supported
         /\ \E e \in DOMAIN interrupts_ :
              /\ interrupts_[e].gpio_num = glitch_filter_handles_[h].gpio_num
              /\ interrupts_[e].callback # NO_CALLBACK
              /\ interrupts_[e].enable_pin_glitch_filter
    /\ \A p \in Pins :
         Cardinality({h \in DOMAIN glitch_filter_handles_ :
                        glitch_filter_handles_[h].gpio_num = p}) <= 1

(***************************************************************************)
(* C18: when the destructor has returned, every glitch filter handle and   *)
(* every HandlerArgs the object ever allocated has been released, and the  *)
(* queue is deleted unless it was never created.  Nothing allocated leaves *)
(* the two lists, and each release happens once: in the step in which the  *)
(* destructor returns, on an item not released before, and a released item *)
(* is never touched again.                                                 *)
(***************************************************************************)
C18_AllReleasedAtReturn ==
  /\ [](DestructReturned =>
          /\ \A i \in DOMAIN handler_args_ : handler_args_[i].freed
          /\ \A h \in DOMAIN glitch_filter_handles_ :
               glitch_filter_handles_[h].state = "deleted"
          /\ queue_ \in {"deleted", "null"}
          /\ (queue_ = "null" => task_ = "none"))
  /\ [][/\ \A i \in DOMAIN handler_args_ :
             /\ i \in DOMAIN handler_args_'
             /\ handler_args_'[i].gpio_num = handler_args_[i].gpio_num
             /\ handler_args_[i].freed => handler_args_'[i] = handler_args_[i]
             /\ (handler_args_'[i].freed /\ ~handler_args_[i].freed) =>
                  (~DestructReturned /\ DestructReturned')
        /\ \A h \in DOMAIN glitch_filter_handles_ :
             /\ h \in DOMAIN glitch_filter_handles_'
             /\ glitch_filter_handles_'[h].gpio_num = glitch_filter_handles_[h].gpio_num
             /\ glitch_filter_handles_[h].state = "deleted" =>
                  glitch_filter_handles_'[h] = glitch_filter_handles_[h]
             /\ (glitch_filter_handles_'[h].state = "deleted"
                 /\ glitch_filter_handles_[h].state # "deleted") =>
                  (~DestructReturned /\ DestructReturned')]_vars

\* The destructor returned on an object with a queue whose pin 1 had been
\* registered twice with the glitch filter: two handler contexts and two
\* filter handles, all released.
C18_Witness ==
  /\ DestructReturned
  /\ queue_ = "deleted"
  /\ Len(handler_args_) = 2
  /\ Len(glitch_filter_handles_) = 2
  /\ \A i \in DOMAIN handler_args_ : handler_args_[i].freed
  /\ \A h \in DOMAIN glitch_filter_handles_ :
       glitch_filter_handles_[h].state = "deleted"

(***************************************************************************)
(* C19: on a live object with a queue, once a gpio_config call has failed,  *)
(* an error about it has been logged, and nothing was rolled back: every   *)
(* table entry with a callback still has a handler context.                *)
(***************************************************************************)
\* The messages logger_.error is given for other causes.
OtherErrors ==
  {"Failed to create event queue", "No callback provided",
   "Failed to enable glitch filter", "No interrupt found",
   "No callback registered"}

C19_ConfigFailureLogged ==
  (life = "alive" /\ queue_ = "valid" /\ config_failed) =>
    /\ error_log \ OtherErrors # {}
    /\ \A e \in DOMAIN interrupts_ :
         interrupts_[e].callback # NO_CALLBACK =>
           LiveArgs(interrupts_[e].gpio_num) # {}

(***************************************************************************)
(* C20: while the object is alive, the first table entry of every pin with *)
(* an installed handler has a callback, and no dequeued event is ever      *)
(* given to no callback.                                                   *)
(***************************************************************************)
C20_ArmedPinHasCallback ==
  /\ life = "alive" =>
       \A p \in Pins :
         isr_table[p] # 0 =>
           /\ FindInterrupt(interrupts_, p) # 0
           /\ interrupts_[FindInterrupt(interrupts_, p)].callback # NO_CALLBACK
  /\ \A p \in Pins : skipped[p] = 0

====
